---- MODULE Spec2Model ----
(***************************************************************************)
(* flowy-ot operation.rs: the Operation enum (Delete / Retain / Insert),   *)
(* its accessors, the OpBuilder and the serde encoding of Retain / Insert. *)
(*                                                                         *)
(* Option<T> is a sequence of length 0 (None) or 1 (Some).  Attributes is  *)
(* a finite map from formatting key to formatting value.  A text is the    *)
(* sequence of its Unicode scalar values; as_bytes is its UTF-8 encoding.  *)
(***************************************************************************)
EXTENDS Integers, Sequences, FiniteSets, TLC

\* ---------------------------------------------------------------- bounds
MaxNum == 2
MaxLen == 2
MaxKeys == 2

\* ------------------------------------------------------- Option<T>
None == <<>>
Some(x) == <<x>>

\* ------------------------------------------------------- Attributes
AttrKeys == 1..MaxKeys
AttrValues == {"true"}
AllAttributes == UNION {[K -> AttrValues] : K \in SUBSET AttrKeys}
Attributes_is_empty(a) == DOMAIN a = {}
OptAttributes == {None} \cup {Some(a) : a \in AllAttributes}

\* ------------------------------------------------------- texts
\* 'a' (1 byte), e-acute (2 bytes), euro sign (3 bytes), U+1F600 (4 bytes)
Scalars == {97, 233, 8364, 128512}
Texts == UNION {[1..k -> Scalars] : k \in 0..MaxLen}
Counts == 0..MaxNum

Utf8(c) ==
    IF c < 128 THEN <<c>>
    ELSE IF c < 2048 THEN <<192 + (c \div 64), 128 + (c % 64)>>
    ELSE IF c < 65536 THEN
        <<224 + (c \div 4096), 128 + ((c \div 64) % 64), 128 + (c % 64)>>
    ELSE <<240 + (c \div 262144), 128 + ((c \div 4096) % 64),
           128 + ((c \div 64) % 64), 128 + (c % 64)>>

RECURSIVE str_as_bytes(_)
str_as_bytes(s) ==
    IF s = <<>> THEN <<>> ELSE Utf8(Head(s)) \o str_as_bytes(Tail(s))

\* bytecount::num_chars: the bytes that are not UTF-8 continuation bytes
RECURSIVE bytecount_num_chars(_)
bytecount_num_chars(bytes) ==
    IF bytes = <<>> THEN 0
    ELSE (IF (Head(bytes) \div 64) = 2 THEN 0 ELSE 1)
         + bytecount_num_chars(Tail(bytes))

\* ------------------------------------------------------- Retain / Insert
Retain_from(n) == [num |-> n, attributes |-> None]
Insert_from(s) == [s |-> s, attributes |-> None]

Insert_as_bytes(i) == str_as_bytes(i.s)

num_chars_bytelen(i) == Len(Insert_as_bytes(i))
num_chars(i) == bytecount_num_chars(Insert_as_bytes(i))

\* ------------------------------------------------------- Operation
Operation_Delete(n) == [tag |-> "Delete", v |-> n]
Operation_Retain(r) == [tag |-> "Retain", v |-> r]
Operation_Insert(i) == [tag |-> "Insert", v |-> i]

is_delete(self) == self.tag = "Delete"

is_noop_plain_only(self) == self.tag = "Retain" /\ self.v.attributes = None
is_noop(self) == self.tag = "Retain"

get_attributes(self) ==
    CASE self.tag = "Delete" -> None
      [] self.tag = "Retain" -> self.v.attributes
      [] self.tag = "Insert" -> self.v.attributes

set_attributes_normalizing(self, attributes) ==
    CASE self.tag = "Delete" -> self
      [] OTHER ->
           [self EXCEPT !.v.attributes =
               IF attributes # None /\ Attributes_is_empty(attributes[1])
               THEN None ELSE attributes]
set_attributes_on_delete(self, attributes) ==
    CASE self.tag = "Delete" ->
           IF attributes = None THEN self
           ELSE Operation_Retain([num |-> self.v, attributes |-> attributes])
      [] OTHER -> [self EXCEPT !.v.attributes = attributes]
set_attributes_reset(self, attributes) ==
    CASE self.tag = "Delete" -> self
      [] self.tag = "Retain" ->
           Operation_Retain([num |-> 0, attributes |-> attributes])
      [] self.tag = "Insert" ->
           Operation_Insert([s |-> <<>>, attributes |-> attributes])
set_attributes(self, attributes) ==
    CASE self.tag = "Delete" -> self
      [] self.tag = "Retain" -> [self EXCEPT !.v.attributes = attributes]
      [] self.tag = "Insert" -> [self EXCEPT !.v.attributes = attributes]

\* the serde skip_serializing_if helper (free function is_empty)
is_empty_none_only(attributes) == attributes = None
is_empty(attributes) ==
    IF attributes = None THEN TRUE ELSE Attributes_is_empty(attributes[1])

is_plain_or_empty(self) == is_empty(get_attributes(self))
is_plain(self) == get_attributes(self) = None

length(self) ==
    CASE self.tag = "Delete" -> self.v
      [] self.tag = "Retain" -> self.v.num
      [] self.tag = "Insert" -> num_chars(self.v)

Operation_is_empty(self) == length(self) = 0

\* ------------------------------------------------------- OpBuilder
OpBuilder_new(ty) == [ty |-> ty, attrs |-> None]
retain(n) == OpBuilder_new(Operation_Retain(Retain_from(n)))
delete(n) == OpBuilder_new(Operation_Delete(n))
insert(s) == OpBuilder_new(Operation_Insert(Insert_from(s)))

attributes_raw(self, attrs) == [self EXCEPT !.attrs = attrs]
attributes_keep(self, attrs) ==
    IF attrs = None THEN self
    ELSE IF Attributes_is_empty(attrs[1])
         THEN [self EXCEPT !.attrs = None]
         ELSE [self EXCEPT !.attrs = Some(attrs[1])]
attributes(self, attrs) ==
    IF attrs = None THEN [self EXCEPT !.attrs = attrs]
    ELSE IF Attributes_is_empty(attrs[1])
         THEN [self EXCEPT !.attrs = None]
         ELSE [self EXCEPT !.attrs = Some(attrs[1])]

build(self) ==
    CASE self.ty.tag = "Delete" -> self.ty
      [] self.ty.tag = "Retain" -> [self.ty EXCEPT !.v.attributes = self.attrs]
      [] self.ty.tag = "Insert" -> [self.ty EXCEPT !.v.attributes = self.attrs]

\* ------------------------------------------------------- serde
\* An encoded object is a function from field names to values.
Field(name, value) == name :> value

Retain_serialize_skip_always(r) == Field("retain", r.num)
Retain_serialize(r) ==
    IF is_empty(r.attributes) THEN Field("retain", r.num)
    ELSE Field("retain", r.num) @@ Field("attributes", r.attributes[1])

Insert_serialize(i) ==
    IF is_empty(i.attributes) THEN Field("insert", i.s)
    ELSE Field("insert", i.s) @@ Field("attributes", i.attributes[1])

\* a missing Option field deserializes to None
Option_deserialize(obj, name) ==
    IF name \in DOMAIN obj THEN Some(obj[name]) ELSE None

Retain_deserialize(obj) ==
    [num |-> obj["retain"],
     attributes |-> Option_deserialize(obj, "attributes")]

Insert_deserialize(obj) ==
    [s |-> obj["insert"],
     attributes |-> Option_deserialize(obj, "attributes")]

\* ------------------------------------------------------- state
VARIABLES
    pc,         \* "start", "builder" (an OpBuilder exists), "built"
    builder,    \* the OpBuilder, NoValue before an entry point / after build
    operation,  \* the built Operation, NoValue before build()
    wire,       \* Option: the encoded Retain / Insert in flight
    arg,        \* history: the entry point called and its argument
    lastArg,    \* history: Option of the last attributes() argument
    replaced,   \* history: the last attributes() replaced a non-empty set
    lastSet,    \* history: Option of the last set_attributes() argument
    sent,       \* history: the value encoded into wire, while in flight
    received    \* history: Option of the value decoded in the latest round
                \* trip, with the object it was decoded from and its origin

vars == <<pc, builder, operation, wire, arg, lastArg, replaced, lastSet,
          sent, received>>

NoValue == [nil |-> TRUE]

Init ==
    /\ pc = "start"
    /\ builder = NoValue
    /\ operation = NoValue
    /\ wire = None
    /\ arg = NoValue
    /\ lastArg = None
    /\ replaced = FALSE
    /\ lastSet = None
    /\ sent = NoValue
    /\ received = None

DoRetain ==
    /\ pc = "start"
    /\ pc' = "builder"
    /\ \E n \in Counts :
         /\ builder' = retain(n)
         /\ arg' = [fn |-> "retain", n |-> n]
    /\ UNCHANGED <<operation, wire, lastArg, replaced, lastSet, sent,
                   received>>

DoDelete ==
    /\ pc = "start"
    /\ pc' = "builder"
    /\ \E n \in Counts :
         /\ builder' = delete(n)
         /\ arg' = [fn |-> "delete", n |-> n]
    /\ UNCHANGED <<operation, wire, lastArg, replaced, lastSet, sent,
                   received>>

DoInsert ==
    /\ pc = "start"
    /\ pc' = "builder"
    /\ \E s \in Texts :
         /\ builder' = insert(s)
         /\ arg' = [fn |-> "insert", s |-> s]
    /\ UNCHANGED <<operation, wire, lastArg, replaced, lastSet, sent,
                   received>>

DoAttributes ==
    /\ pc = "builder"
    /\ \E attrs \in OptAttributes :
         /\ builder' = attributes(builder, attrs)
         /\ lastArg' = Some(attrs)
    /\ replaced' = (builder.attrs # None)
    /\ UNCHANGED <<pc, operation, wire, arg, lastSet, sent, received>>

DoBuild ==
    /\ pc = "builder"
    /\ pc' = "built"
    /\ operation' = build(builder)
    /\ builder' = NoValue
    /\ UNCHANGED <<wire, arg, lastArg, replaced, lastSet, sent,
                   received>>

DoSetAttributes ==
    /\ pc = "built"
    /\ \E a \in OptAttributes :
         /\ operation' = set_attributes(operation, a)
         /\ lastSet' = Some(a)
    /\ UNCHANGED <<pc, builder, wire, arg, lastArg, replaced, sent,
                   received>>

DoSerialize ==
    /\ pc = "built"
    /\ wire = None
    /\ operation.tag \in {"Retain", "Insert"}
    /\ wire' = Some(IF operation.tag = "Retain"
                    THEN Retain_serialize(operation.v)
                    ELSE Insert_serialize(operation.v))
    /\ sent' = [op |-> operation, pristine |-> (lastSet = None)]
    /\ received' = None
    /\ UNCHANGED <<pc, builder, operation, arg, lastArg, replaced, lastSet>>

DoDeserialize ==
    /\ wire # None
    /\ received' = Some([of |-> sent,
                         obj |-> wire[1],
                         value |-> IF "retain" \in DOMAIN wire[1]
                                   THEN Retain_deserialize(wire[1])
                                   ELSE Insert_deserialize(wire[1])])
    /\ wire' = None
    /\ sent' = NoValue
    /\ UNCHANGED <<pc, builder, operation, arg, lastArg, replaced, lastSet>>

Next ==
    \/ DoRetain
    \/ DoDelete
    \/ DoInsert
    \/ DoAttributes
    \/ DoBuild
    \/ DoSetAttributes
    \/ DoSerialize
    \/ DoDeserialize

Spec == Init /\ [][Next]_vars

\* ------------------------------------------------------- properties
Built == pc = "built"
FromBuilder == pc = "built" /\ lastSet = None
NonEmptySome(a) == a # None /\ DOMAIN a[1] # {}
EmptySome(a) == a # None /\ DOMAIN a[1] = {}
Normalized(a) == IF NonEmptySome(a) THEN a ELSE None
ExpectedLen == IF arg.fn = "insert" THEN Len(arg.s) ELSE arg.n
ExpectedTag ==
    CASE arg.fn = "retain" -> "Retain"
      [] arg.fn = "delete" -> "Delete"
      [] arg.fn = "insert" -> "Insert"
HasMultiByte(s) == \E i \in 1..Len(s) : s[i] >= 128

\* C1: the Operation returned by build() has attributes that are either
\* absent or a non-empty set, never present-but-empty, whatever entry point
\* and attributes() calls preceded it.
C1_BuildAbsentOrNonEmpty ==
    FromBuilder =>
        \/ get_attributes(operation) = None
        \/ NonEmptySome(get_attributes(operation))

C1_Witness ==
    /\ FromBuilder
    /\ lastArg # None
    /\ EmptySome(lastArg[1])
    /\ operation.tag = "Insert"
    /\ get_attributes(operation) = None

\* C2: for a Retain or Insert builder the built attributes are the
\* normalization of the argument of the last attributes() call only, and
\* absent when attributes() was never called; a later absent or empty
\* argument discards an earlier non-empty set.
C2_LastCallWins ==
    FromBuilder /\ operation.tag \in {"Retain", "Insert"} =>
        get_attributes(operation) =
            (IF lastArg = None THEN None ELSE Normalized(lastArg[1]))

C2_Witness ==
    /\ FromBuilder
    /\ operation.tag = "Retain"
    /\ replaced
    /\ lastArg = Some(None)
    /\ get_attributes(operation) = None

\* C3: length() is n for delete(n) and retain(n), and for insert(s) the
\* number of Unicode scalar values of s, which is strictly smaller than the
\* byte count of s whenever s holds a multi-byte character.
C3_LengthIsScalarCount ==
    Built =>
        /\ length(operation) = ExpectedLen
        /\ (arg.fn = "insert" /\ HasMultiByte(arg.s) =>
               length(operation) < Len(Insert_as_bytes(operation.v)))
        /\ (arg.fn = "insert" /\ ~HasMultiByte(arg.s) =>
               length(operation) = Len(Insert_as_bytes(operation.v)))

C3_Witness ==
    /\ Built
    /\ arg.fn = "insert"
    /\ Len(arg.s) = 2
    /\ HasMultiByte(arg.s)
    /\ length(operation) = 2
    /\ Len(Insert_as_bytes(operation.v)) > 2

\* C4: a Delete never carries attributes: after delete(n), any attributes()
\* calls, build() and any set_attributes() calls, get_attributes() is absent
\* and the operation is still equal to Delete(n).
C4_DeleteNeverCarriesAttributes ==
    Built /\ arg.fn = "delete" =>
        /\ get_attributes(operation) = None
        /\ operation = Operation_Delete(arg.n)

C4_Witness ==
    /\ Built
    /\ arg.fn = "delete"
    /\ lastArg # None
    /\ NonEmptySome(lastArg[1])
    /\ lastSet # None
    /\ NonEmptySome(lastSet[1])
    /\ operation = Operation_Delete(arg.n)

\* C5: decoding the encoded form of a Retain or Insert produced by the
\* builder yields a structurally equal value, and when its attributes are
\* absent the encoded form has no "attributes" field.
C5_RoundTrip ==
    received # None /\ received[1].of.pristine =>
        /\ received[1].value = received[1].of.op.v
        /\ (received[1].of.op.v.attributes = None =>
               "attributes" \notin DOMAIN received[1].obj)

C5_Witness ==
    /\ received # None
    /\ received[1].of.pristine
    /\ received[1].of.op.tag = "Retain"
    /\ NonEmptySome(received[1].of.op.v.attributes)
    /\ received[1].value = received[1].of.op.v

\* C6: the encoded form of a Retain or Insert has the "attributes" field if
\* and only if the attribute set is present and non-empty; a value with
\* present-but-empty attributes encodes as the same value with absent
\* attributes does, and decoding that encoding yields absent attributes.
C6_AttributesFieldRule ==
    /\ wire # None =>
         /\ ("attributes" \in DOMAIN wire[1])
                <=> NonEmptySome(sent.op.v.attributes)
         /\ (EmptySome(sent.op.v.attributes) =>
                wire[1] =
                    (IF sent.op.tag = "Retain"
                     THEN Retain_serialize(
                              [sent.op.v EXCEPT !.attributes = None])
                     ELSE Insert_serialize(
                              [sent.op.v EXCEPT !.attributes = None])))
    /\ received # None =>
         /\ ("attributes" \in DOMAIN received[1].obj)
                <=> NonEmptySome(received[1].of.op.v.attributes)
         /\ (EmptySome(received[1].of.op.v.attributes) =>
                received[1].value.attributes = None)

C6_Witness ==
    /\ received # None
    /\ EmptySome(received[1].of.op.v.attributes)
    /\ "attributes" \notin DOMAIN received[1].obj
    /\ received[1].value.attributes = None

\* C7: for an Operation of any variant, is_plain() is true if and only if
\* get_attributes() is absent; with present-but-empty attributes is_plain()
\* is false, and a Delete is always plain.
C7_PlainIffAbsent ==
    Built =>
        /\ is_plain(operation) <=> (get_attributes(operation) = None)
        /\ (operation.tag # "Delete" /\ EmptySome(operation.v.attributes)
               => ~is_plain(operation))
        /\ (operation.tag = "Delete" => is_plain(operation))

C7_Witness ==
    /\ Built
    /\ operation.tag = "Retain"
    /\ EmptySome(operation.v.attributes)
    /\ ~is_plain(operation)

\* C8: is_noop() is true exactly for the operations made by retain(n),
\* whatever their attributes, and is_delete() exactly for those made by
\* delete(n).
C8_NoopIffRetain ==
    Built =>
        /\ is_noop(operation) <=> (arg.fn = "retain")
        /\ is_noop(operation) <=> (operation.tag = "Retain")
        /\ is_delete(operation) <=> (arg.fn = "delete")
        /\ is_delete(operation) <=> (operation.tag = "Delete")

C8_Witness ==
    /\ Built
    /\ arg.fn = "retain"
    /\ lastSet # None
    /\ NonEmptySome(get_attributes(operation))
    /\ is_noop(operation)
    /\ ~is_delete(operation)

\* C9: set_attributes(a) on a Retain or Insert stores a as given, without
\* normalization: afterwards get_attributes() is the argument of the last
\* set_attributes() call, including a present-but-empty set.
C9_SetAttributesStoresAsGiven ==
    Built /\ lastSet # None /\ operation.tag \in {"Retain", "Insert"} =>
        get_attributes(operation) = lastSet[1]

C9_Witness ==
    /\ Built
    /\ lastSet # None
    /\ operation.tag = "Insert"
    /\ EmptySome(lastSet[1])
    /\ EmptySome(get_attributes(operation))

\* C10: attributes(), build() and set_attributes() never touch the payload:
\* each step leaves the variant tag and length() (hence is_empty(),
\* is_delete() and is_noop()) unchanged, and the built operation's length is
\* the count or text length given to the builder entry point.
C10_Frame ==
    /\ (pc = "builder" /\ pc' = "builder" => builder'.ty = builder.ty)
    /\ (pc = "builder" /\ pc' = "built" =>
           /\ operation'.tag = builder.ty.tag
           /\ length(operation') = length(builder.ty))
    /\ (pc = "built" /\ pc' = "built" =>
           /\ operation'.tag = operation.tag
           /\ length(operation') = length(operation)
           /\ Operation_is_empty(operation') = Operation_is_empty(operation)
           /\ is_delete(operation') = is_delete(operation)
           /\ is_noop(operation') = is_noop(operation))
    /\ (pc' = "built" =>
           /\ operation'.tag = ExpectedTag'
           /\ length(operation') = ExpectedLen'
           /\ Operation_is_empty(operation') <=> (ExpectedLen' = 0))

C10_PayloadUntouched == [][C10_Frame]_vars

C10_Witness ==
    /\ Built
    /\ operation.tag = "Insert"
    /\ lastArg # None
    /\ lastSet # None
    /\ NonEmptySome(lastSet[1])
    /\ length(operation) = ExpectedLen
    /\ ExpectedLen >= 1

====
